---- MODULE Spec2Model ----
(***************************************************************************)
(* Checkout backend of psiloupback: the handlers quote and createOrder of  *)
(* back/src/controllers/CheckoutController.js, with the store (products'   *)
(* stock, orders, order items) and the sequelize transaction each          *)
(* createOrder request runs in.  A handler is split at its awaits: between *)
(* two awaits of one request the other requests may run.                   *)
(*                                                                         *)
(* Money is in integer cents.  A payment line's unit_price, a decimal in   *)
(* the code (cents / 100), is kept here as the number of cents it denotes: *)
(* Math.round(unit_price * 100 * quantity) is then cents * quantity.       *)
(***************************************************************************)
EXTENDS Integers, Sequences, FiniteSets, TLC

\* ------------------------------------------------------------------ bounds

MaxRequests == 2   \* requests served in one behaviour of SpecSeq / Spec
MaxQty      == 4   \* largest quantity a cart line of SpecPricing asks for
MaxPrice    == 2   \* largest price_cents override of SpecPricing
MaxShipping == 1   \* largest shipping price of SpecPricing
MaxDiscount == 3   \* largest coupon discount of SpecPricing
InitStock   == 2   \* stockQuantity of the stock-managed product at start

\* ------------------------------------------------------- JavaScript values

Undef  == [t |-> "undef"]
Num(n) == [t |-> "num", v |-> n]
Str(s) == [t |-> "str", s |-> s]
NaN    == [t |-> "nan"]

\* JavaScript truthiness of a request value: undefined, 0, NaN and "" are
\* falsy.
Truthy(x) ==
  CASE x.t = "undef" -> FALSE
    [] x.t = "nan"   -> FALSE
    [] x.t = "num"   -> x.v # 0
    [] x.t = "str"   -> x.s # ""
    [] OTHER         -> TRUE

\* a || b
Or(a, b) == IF Truthy(a) THEN a ELSE b

\* a ?? b
Coalesce(a, b) == IF a.t = "undef" THEN b ELSE a

\* The strings of the model that spell a number, with the number.
NumericStrings == { <<"0", 0>>, <<"1", 1>>, <<"2", 2>> }

\* Number(x)
ToNumber(x) ==
  CASE x.t = "num" -> x
    [] x.t = "str" ->
         IF \E p \in NumericStrings : p[1] = x.s
         THEN Num((CHOOSE p \in NumericStrings : p[1] = x.s)[2])
         ELSE NaN
    [] OTHER -> NaN

Max(a, b) == IF a >= b THEN a ELSE b
Min(a, b) == IF a <= b THEN a ELSE b

\* Math.round(n / d) for integers n and d > 0: the nearest integer, a half
\* rounded up.
RoundDiv(n, d) == (2 * n + d) \div (2 * d)

\* ----------------------------------------------------------------- catalog

\* The products of the store: one stock-managed, one not, one inactive.
ProductIds == {1, 2, 3}

Catalog ==
  [p \in ProductIds |->
     CASE p = 1 -> [id |-> 1, sku |-> "A", active |-> TRUE,
                    stockManaged |-> TRUE, priceCents |-> 1]
       [] p = 2 -> [id |-> 2, sku |-> "STACK-DUPLO", active |-> TRUE,
                    stockManaged |-> FALSE, priceCents |-> 2]
       [] p = 3 -> [id |-> 3, sku |-> "C", active |-> FALSE,
                    stockManaged |-> TRUE, priceCents |-> 1]]

NoProduct == 0

\* Product.findByPk(k)
FindByPk(k) ==
  IF k.t = "num" /\ k.v \in ProductIds THEN k.v ELSE NoProduct

\* Product.findOne({ where: { sku } })
FindBySku(s) ==
  IF s.t = "str" /\ \E p \in ProductIds : Catalog[p].sku = s.s
  THEN CHOOSE p \in ProductIds : Catalog[p].sku = s.s
  ELSE NoProduct

\* ------------------------------------------------------------ resolveItems

\* The quantity a cart line asks for: Number(item.qty || item.quantity || 1).
Qty(item) == ToNumber(Or(Or(item.qty, item.quantity), Num(1)))

\* if (!qty || qty <= 0) continue;
Skipped(qty) == ~Truthy(qty) \/ qty.v <= 0

\* The product a cart line resolves to, by productId, then id (as a key,
\* then as a sku), then sku; NoProduct when nothing is found.
FindProduct(item) ==
  IF Truthy(item.productId) THEN FindByPk(item.productId)
  ELSE IF Truthy(item.id) THEN
         LET maybeId == ToNumber(item.id)
             byKey   == IF maybeId.t = "num" THEN FindByPk(maybeId) ELSE NoProduct
         IN  IF byKey # NoProduct THEN byKey ELSE FindBySku(item.id)
  ELSE IF Truthy(item.sku) THEN FindBySku(item.sku)
  ELSE NoProduct

\* The product lookups the resolution of a cart line issues.
LookupCalls(item) ==
  IF Truthy(item.productId) THEN <<"Product.findByPk">>
  ELSE IF Truthy(item.id) THEN
         LET maybeId == ToNumber(item.id)
             byKey   == IF maybeId.t = "num" THEN FindByPk(maybeId) ELSE NoProduct
         IN  (IF maybeId.t = "num" THEN <<"Product.findByPk">> ELSE << >>)
             \o (IF byKey = NoProduct THEN <<"Product.findOne">> ELSE << >>)
  ELSE IF Truthy(item.sku) THEN <<"Product.findOne">>
  ELSE << >>

\* The check without its test of product.active.
ProductMissingMut(p) == p = NoProduct

\* if (!product || !product.active) throw
ProductMissing(p) == p = NoProduct \/ ~Catalog[p].active

\* if (product.stockManaged && product.stockQuantity < qty) throw
StockShort(p, stockQuantity, qty) ==
  Catalog[p].stockManaged /\ stockQuantity < qty

\* Number(item.price_cents ?? product.priceCents)
UnitPriceCents(item, p) ==
  ToNumber(Coalesce(item.price_cents, Num(Catalog[p].priceCents))).v

\* if (!Array.isArray(rawItems) || !rawItems.length) throw
RawItemsInvalid(rawItems) == rawItems.t # "array" \/ Len(rawItems.a) = 0

\* if (!items.length) throw
NoItemsResolved(items) == Len(items) = 0

\* ----------------------------------------------------------------- pricing

RECURSIVE SumCents(_)
\* items.reduce((acc, item) => acc + item.unit_price_cents * item.qty, 0)
SumCents(items) ==
  IF items = << >> THEN 0
  ELSE Head(items).unit_price_cents * Head(items).qty + SumCents(Tail(items))

SubtotalCents(items) == SumCents(items)

\* Number(shippingSelection.price_cents || shippingSelection.cost_cents || 0)
ShippingCents(shipping) ==
  ToNumber(Or(Or(shipping.price_cents, shipping.cost_cents), Num(0))).v

\* The total without its floor at zero.
TotalCentsMut(subtotalCents, shippingCents, discountCents) ==
  subtotalCents + shippingCents - discountCents

\* Math.max(0, subtotalCents + shippingCents - discountCents)
TotalCents(subtotalCents, shippingCents, discountCents) ==
  Max(0, subtotalCents + shippingCents - discountCents)

\* The payment lines before the discount: one per resolved item, then the
\* shipping line when shipping > 0.
MpItems(items, shippingCents) ==
  [i \in 1..Len(items) |->
     [quantity |-> items[i].qty, unit_price |-> items[i].unit_price_cents]]
  \o (IF shippingCents > 0
      THEN << [quantity |-> 1, unit_price |-> shippingCents] >>
      ELSE << >>)

\* The round without remainingDiscount -= deduction.
DiscountLineKeepMut(mpItem, remainingDiscount) ==
  LET itemTotalCents == mpItem.unit_price * mpItem.quantity
      deduction      == Min(itemTotalCents, remainingDiscount)
  IN  IF remainingDiscount <= 0 \/ itemTotalCents <= 0
      THEN [unit_price |-> mpItem.unit_price, remaining |-> remainingDiscount]
      ELSE [unit_price |-> Max(0, RoundDiv(itemTotalCents - deduction, mpItem.quantity)),
            remaining  |-> remainingDiscount]

\* The round taking the whole remaining discount off the line, with neither
\* Math.min nor Math.max.
DiscountLineMut(mpItem, remainingDiscount) ==
  LET itemTotalCents == mpItem.unit_price * mpItem.quantity
  IN  IF remainingDiscount <= 0 \/ itemTotalCents <= 0
      THEN [unit_price |-> mpItem.unit_price, remaining |-> remainingDiscount]
      ELSE [unit_price |-> RoundDiv(itemTotalCents - remainingDiscount, mpItem.quantity),
            remaining  |-> remainingDiscount - itemTotalCents]

\* One round of the forEach of the discount allocation: the line's new unit
\* price and the discount that remains after it.
DiscountLine(mpItem, remainingDiscount) ==
  LET itemTotalCents == mpItem.unit_price * mpItem.quantity
      deduction      == Min(itemTotalCents, remainingDiscount)
      newTotalCents  == itemTotalCents - deduction
  IN  IF remainingDiscount <= 0 \/ itemTotalCents <= 0
      THEN [unit_price |-> mpItem.unit_price, remaining |-> remainingDiscount]
      ELSE [unit_price |-> Max(0, RoundDiv(newTotalCents, mpItem.quantity)),
            remaining  |-> remainingDiscount - deduction]

RECURSIVE Allocate(_, _)
\* The forEach: every line in order, with the discount remaining before it.
\* A line of the result keeps the price it had before (orig_price) and the
\* discount remaining after it (remaining).
Allocate(mp, remainingDiscount) ==
  IF mp = << >> THEN << >>
  ELSE LET r == DiscountLine(Head(mp), remainingDiscount)
       IN  << [quantity   |-> Head(mp).quantity,
               orig_price |-> Head(mp).unit_price,
               unit_price |-> r.unit_price,
               remaining  |-> r.remaining] >>
           \o Allocate(Tail(mp), r.remaining)

\* The payment lines sent to the gateway:
\* if (discountCents > 0 && mpItems.length) { ...forEach... }
PaymentLines(items, shippingCents, discountCents) ==
  LET mpItems == MpItems(items, shippingCents)
  IN  IF discountCents > 0 /\ Len(mpItems) > 0
      THEN Allocate(mpItems, discountCents)
      ELSE [i \in 1..Len(mpItems) |->
              [quantity   |-> mpItems[i].quantity,
               orig_price |-> mpItems[i].unit_price,
               unit_price |-> mpItems[i].unit_price,
               remaining  |-> discountCents]]

\* ---------------------------------------------------------------- requests

\* A cart line as a request carries it.
RawLine(productId, id, sku, qty, quantity, price_cents) ==
  [productId |-> productId, id |-> id, sku |-> sku,
   qty |-> qty, quantity |-> quantity, price_cents |-> price_cents]

BySku(sku, qty, price_cents) ==
  RawLine(Undef, Undef, Str(sku), qty, Undef, price_cents)

Array(a) == [t |-> "array", a |-> a]

\* The body of a POST /create.
CreateBody(items, address_id, shipping, coupon_code) ==
  [items |-> items, address_id |-> address_id, shipping |-> shipping,
   coupon_code |-> coupon_code, destination |-> Undef]

Shipping(price_cents) ==
  [t |-> "object", price_cents |-> price_cents, cost_cents |-> Undef]

\* A coupon code, with what couponService makes of it: findActiveCoupon
\* throws on a code that is not valid, computeDiscount gives the discount.
Coupon(valid, discount) == [t |-> "coupon", valid |-> valid, discount |-> discount]

\* The address the authenticated user owns; any other address_id finds none.
OwnAddress   == Num(1)
OtherAddress == Num(9)

\* ensureFields(req.body, fields): the fields the body lacks.
EnsureFields(b, fields) == { f \in fields : b[f].t = "undef" }

\* String(cep).replace(/\D/g, '') of the postal codes of the model.
DigitsOf(s) ==
  CASE s = "01310-100" -> "01310100"
    [] s = "abc"       -> ""
    [] OTHER           -> s

NoQuery == [sku |-> Undef, id |-> Undef, productId |-> Undef, qty |-> Undef,
            cep |-> Undef, postal_code |-> Undef]

\* The payload quote works on: the body, or one built from the query when
\* the body lacks items or destination; Undef when the query has no cep.
QuotePayload(b, q) ==
  IF ~Truthy(b.items) \/ ~Truthy(b.destination)
  THEN LET sku == Or(Or(Or(q.sku, q.id), q.productId), Str("STACK-DUPLO"))
           qty == ToNumber(Or(q.qty, Num(1)))
           raw == Or(Or(q.cep, q.postal_code), Str(""))
           cep == IF raw.t = "str" THEN DigitsOf(raw.s) ELSE ""
       IN  IF cep = "" THEN Undef
           ELSE [items |-> Array(<< RawLine(Undef, Undef, sku, qty, Undef, Undef) >>),
                 destination |-> [t |-> "object", cep |-> Str(cep)]]
  ELSE [items |-> b.items, destination |-> b.destination]

\* ------------------------------------------------------------------- state

Procs == {"r1", "r2"}

VARIABLES
  stock,       \* Product.stockQuantity of every product, as committed
  orders,      \* the committed Order rows
  orderItems,  \* the committed OrderItem rows
  req,         \* every request slot: the handler's position and locals
  nreq,        \* requests begun so far; a request's number is its order's id
  failed       \* numbers of the requests answered with an error

vars == <<stock, orders, orderItems, req, nreq, failed>>

NoOrder == [id |-> 0, subtotalCents |-> 0, shippingCents |-> 0,
            discountCents |-> 0, totalCents |-> 0,
            mercadoPagoPreferenceId |-> 0]

NoResponse == [status |-> 0, error |-> ""]

NoDec == [p \in ProductIds |-> 0]

IdleReq ==
  [pc            |-> "idle",
   handler       |-> "",
   no            |-> 0,
   body          |-> Undef,
   rawItems      |-> << >>,     \* the cart lines resolveItems walks
   line          |-> 0,         \* the loop index of the running for loop
   items         |-> << >>,     \* the resolved items
   discountCents |-> 0,
   txState       |-> "none",    \* none | open | committed | rolledback
   txOrder       |-> NoOrder,   \* the Order row written in the transaction
   txRows        |-> << >>,     \* the OrderItem rows written in it
   txDec         |-> NoDec,     \* the stock decrements made in it
   mp            |-> << >>,     \* the payment lines sent to the gateway
   pending       |-> NoResponse,\* the response the handler is about to send
   response      |-> NoResponse,
   calls         |-> << >>]     \* the external calls issued, in order

\* The handler of request slot r throws (or returns early) with this error:
\* createOrder rolls back, then responds; quote responds.
Throw(q, status, error) ==
  [q EXCEPT !.pending = [status |-> status, error |-> error],
            !.pc = IF q.handler = "create" THEN "rollback" ELSE "respond"]

Call(q, name) == [q EXCEPT !.calls = Append(@, name)]

InitStore ==
  /\ stock = [p \in ProductIds |-> InitStock]
  /\ orders = {}
  /\ orderItems = {}
  /\ req = [r \in Procs |-> IdleReq]
  /\ nreq = 0
  /\ failed = {}

\* ------------------------------------------------------------- createOrder

\* POST /create arrives: const transaction = await sequelize.transaction()
BeginCreate(r, bodies, maxRequests) ==
  /\ req[r].pc = "idle"
  /\ nreq < maxRequests
  /\ \E b \in bodies :
       req' = [req EXCEPT ![r] =
                 [IdleReq EXCEPT !.pc = "validate", !.handler = "create",
                                 !.no = nreq + 1, !.body = b,
                                 !.txState = "open",
                                 !.calls = <<"sequelize.transaction">>]]
  /\ nreq' = nreq + 1
  /\ UNCHANGED <<stock, orders, orderItems, failed>>

\* The entry without the rejection of an empty cart: resolveItems returns
\* no item and createOrder goes on.
ValidateMut(r) ==
  /\ req[r].pc = "validate"
  /\ LET q == req[r]
         required == EnsureFields(q.body, {"items", "address_id", "shipping"})
     IN  req' = [req EXCEPT ![r] =
           IF required # {} THEN Throw(q, 400, "Dados incompletos.")
           ELSE IF q.body.items.a = << >> THEN [q EXCEPT !.pc = "address"]
           ELSE [q EXCEPT !.pc = "resolve", !.rawItems = q.body.items.a, !.line = 1]]
  /\ UNCHANGED <<stock, orders, orderItems, nreq, failed>>

\* ensureFields, then the entry of resolveItems (up to its first await).
Validate(r) ==
  /\ req[r].pc = "validate"
  /\ LET q == req[r]
         required == EnsureFields(q.body, {"items", "address_id", "shipping"})
     IN  req' = [req EXCEPT ![r] =
           IF required # {} THEN Throw(q, 400, "Dados incompletos.")
           ELSE IF RawItemsInvalid(q.body.items) THEN Throw(q, 400, "Itens invalidos.")
           ELSE [q EXCEPT !.pc = "resolve", !.rawItems = q.body.items.a, !.line = 1]]
  /\ UNCHANGED <<stock, orders, orderItems, nreq, failed>>

\* One round of the for loop of resolveItems, or its end.  A lookup reads
\* the committed stock: it is made outside the request's transaction.
ResolveStep(q, stockNow) ==
  IF q.line > Len(q.rawItems) THEN
    IF NoItemsResolved(q.items) THEN Throw(q, 400, "Itens invalidos.")
    ELSE [q EXCEPT !.pc = IF q.handler = "create" THEN "address" ELSE "shipping",
                   !.line = 0]
  ELSE
    LET item == q.rawItems[q.line]
        qty  == Qty(item)
    IN  IF Skipped(qty) THEN [q EXCEPT !.line = @ + 1]
        ELSE
          LET product == FindProduct(item)
              looked  == [q EXCEPT !.calls = @ \o LookupCalls(item)]
          IN  IF ProductMissing(product)
                THEN Throw(looked, 400, "Produto nao encontrado")
              ELSE IF StockShort(product, stockNow[product], qty.v)
                THEN Throw(looked, 400, "Estoque insuficiente")
              ELSE [looked EXCEPT
                      !.items = Append(@, [product |-> product, qty |-> qty.v,
                                           unit_price_cents |-> UnitPriceCents(item, product)]),
                      !.line = @ + 1]

ResolveLine(r) ==
  /\ req[r].pc = "resolve"
  /\ req' = [req EXCEPT ![r] = ResolveStep(req[r], stock)]
  /\ UNCHANGED <<stock, orders, orderItems, nreq, failed>>

\* Address.findOne, then the subtotal.
FindAddress(r) ==
  /\ req[r].pc = "address"
  /\ LET q == Call(req[r], "Address.findOne")
     IN  req' = [req EXCEPT ![r] =
           IF q.body.address_id # OwnAddress THEN Throw(q, 404, "Endereco invalido.")
           ELSE IF Truthy(q.body.coupon_code) THEN [q EXCEPT !.pc = "coupon"]
           ELSE [q EXCEPT !.pc = "orderCreate", !.discountCents = 0]]
  /\ UNCHANGED <<stock, orders, orderItems, nreq, failed>>

\* couponService.findActiveCoupon and computeDiscount.
ApplyCoupon(r) ==
  /\ req[r].pc = "coupon"
  /\ LET q == Call(req[r], "couponService.findActiveCoupon")
     IN  req' = [req EXCEPT ![r] =
           IF ~q.body.coupon_code.valid THEN Throw(q, 400, "Cupom invalido")
           ELSE [q EXCEPT !.pc = "orderCreate",
                          !.discountCents = q.body.coupon_code.discount]]
  /\ UNCHANGED <<stock, orders, orderItems, nreq, failed>>

\* The Order row createOrder writes.
OrderHeader(q) ==
  LET subtotalCents == SubtotalCents(q.items)
      shippingCents == ShippingCents(q.body.shipping)
  IN  [id |-> q.no,
       subtotalCents |-> subtotalCents,
       shippingCents |-> shippingCents,
       discountCents |-> q.discountCents,
       totalCents |-> TotalCents(subtotalCents, shippingCents, q.discountCents),
       mercadoPagoPreferenceId |-> 0]

\* Order.create without { transaction }: the row is written at once.
OrderCreateMut(r) ==
  /\ req[r].pc = "orderCreate"
  /\ \E ok \in BOOLEAN :
       LET q == Call(req[r], "Order.create")
       IN  /\ req' = [req EXCEPT ![r] =
                IF ~ok THEN Throw(q, 400, "Order.create failed")
                ELSE [q EXCEPT !.txOrder = OrderHeader(q), !.line = 1,
                               !.pc = "itemCreate"]]
           /\ orders' = IF ok THEN orders \cup {OrderHeader(q)} ELSE orders
  /\ UNCHANGED <<stock, orderItems, nreq, failed>>

\* Order.create, in the transaction.
OrderCreate(r) ==
  /\ req[r].pc = "orderCreate"
  /\ \E ok \in BOOLEAN :
       LET q == Call(req[r], "Order.create")
       IN  req' = [req EXCEPT ![r] =
             IF ~ok THEN Throw(q, 400, "Order.create failed")
             ELSE [q EXCEPT !.txOrder = OrderHeader(q), !.line = 1,
                            !.pc = "itemCreate"]]
  /\ UNCHANGED <<stock, orders, orderItems, nreq, failed>>

\* The position after the order item of q.line is done with.
NextItem(q) ==
  [q EXCEPT !.line = @ + 1,
            !.pc = IF q.line >= Len(q.items) THEN "preference" ELSE "itemCreate"]

\* OrderItem.create for the item of req[r].line, in the transaction.
ItemCreate(r) ==
  /\ req[r].pc = "itemCreate"
  /\ \E ok \in BOOLEAN :
       LET q    == Call(req[r], "OrderItem.create")
           item == q.items[q.line]
           row  == [orderId |-> q.txOrder.id, line |-> q.line,
                    productId |-> item.product, quantity |-> item.qty,
                    unitPriceCents |-> item.unit_price_cents]
           done == [q EXCEPT !.txRows = Append(@, row)]
       IN  req' = [req EXCEPT ![r] =
             IF ~ok THEN Throw(q, 400, "OrderItem.create failed")
             ELSE IF Catalog[item.product].stockManaged
               THEN [done EXCEPT !.pc = "decrement"]
             ELSE NextItem(done)]
  /\ UNCHANGED <<stock, orders, orderItems, nreq, failed>>

\* item.product.decrement('stockQuantity', { by: item.qty, transaction })
Decrement(r) ==
  /\ req[r].pc = "decrement"
  /\ \E ok \in BOOLEAN :
       LET q    == Call(req[r], "Product.decrement")
           item == q.items[q.line]
       IN  req' = [req EXCEPT ![r] =
             IF ~ok THEN Throw(q, 400, "decrement failed")
             ELSE NextItem([q EXCEPT !.txDec[item.product] = @ + item.qty])]
  /\ UNCHANGED <<stock, orders, orderItems, nreq, failed>>

\* The payment lines, the discount allocation, paymentService.createPreference.
CreatePreference(r) ==
  /\ req[r].pc = "preference"
  /\ \E ok \in BOOLEAN :
       LET q  == Call(req[r], "paymentService.createPreference")
           mp == PaymentLines(q.items, q.txOrder.shippingCents, q.discountCents)
       IN  req' = [req EXCEPT ![r] =
             IF ~ok THEN Throw([q EXCEPT !.mp = mp], 400, "createPreference failed")
             ELSE [q EXCEPT !.mp = mp, !.pc = "orderUpdate"]]
  /\ UNCHANGED <<stock, orders, orderItems, nreq, failed>>

\* The identifier the payment gateway gives the preference of request no.
PreferenceId(no) == no

\* order.update({ mercadoPagoPreferenceId }), in the transaction.
OrderUpdate(r) ==
  /\ req[r].pc = "orderUpdate"
  /\ \E ok \in BOOLEAN :
       LET q == Call(req[r], "order.update")
       IN  req' = [req EXCEPT ![r] =
             IF ~ok THEN Throw(q, 400, "order.update failed")
             ELSE [q EXCEPT !.txOrder.mercadoPagoPreferenceId = PreferenceId(q.no),
                            !.pc = "commit"]]
  /\ UNCHANGED <<stock, orders, orderItems, nreq, failed>>

\* The rows of a sequence, as a set.
Range(s) == { s[i] : i \in 1..Len(s) }

\* A stock column that cannot go below zero.
StockAfterMut(stockNow, txDec) ==
  [p \in ProductIds |-> Max(0, stockNow[p] - txDec[p])]

\* What transaction.commit() makes of the stock: every decrement of the
\* transaction applied (UPDATE ... SET stockQuantity = stockQuantity - by).
StockAfter(stockNow, txDec) == [p \in ProductIds |-> stockNow[p] - txDec[p]]

\* transaction.commit(): the writes of the transaction become visible.
Commit(r) ==
  /\ req[r].pc = "commit"
  /\ \E ok \in BOOLEAN :
       LET q == Call(req[r], "transaction.commit")
       IN  IF ~ok
           THEN /\ req' = [req EXCEPT ![r] = Throw(q, 400, "commit failed")]
                /\ UNCHANGED <<stock, orders, orderItems>>
           ELSE /\ req' = [req EXCEPT ![r] =
                      [q EXCEPT !.txState = "committed", !.pc = "respond",
                                !.pending = [status |-> 200, error |-> ""]]]
                /\ orders' = orders \cup {q.txOrder}
                /\ orderItems' = orderItems \cup Range(q.txRows)
                /\ stock' = StockAfter(stock, q.txDec)
  /\ UNCHANGED <<nreq, failed>>

\* transaction.rollback(): the writes of the transaction are dropped.
Rollback(r) ==
  /\ req[r].pc = "rollback"
  /\ req' = [req EXCEPT ![r] =
       [Call(req[r], "transaction.rollback") EXCEPT
          !.txState = "rolledback", !.txOrder = NoOrder, !.txRows = << >>,
          !.txDec = NoDec, !.pc = "respond"]]
  /\ UNCHANGED <<stock, orders, orderItems, nreq, failed>>

\* res.status(...).json(...)
Respond(r) ==
  /\ req[r].pc = "respond"
  /\ req' = [req EXCEPT ![r] =
       [req[r] EXCEPT !.response = req[r].pending, !.pc = "done"]]
  /\ failed' = IF req[r].pending.status # 200 /\ req[r].handler = "create"
               THEN failed \cup {req[r].no} ELSE failed
  /\ UNCHANGED <<stock, orders, orderItems, nreq>>

\* The request is over; the slot serves the next one.
Finish(r) ==
  /\ req[r].pc = "done"
  /\ req' = [req EXCEPT ![r] = IdleReq]
  /\ UNCHANGED <<stock, orders, orderItems, nreq, failed>>

\* ------------------------------------------------------------------- quote

\* POST or GET /quote arrives; the payload, then the entry of resolveItems.
BeginQuote(r, requests, maxRequests) ==
  /\ req[r].pc = "idle"
  /\ nreq < maxRequests
  /\ \E rq \in requests :
       LET q == [IdleReq EXCEPT !.handler = "quote", !.no = nreq + 1,
                                !.body = rq.body]
           payload == QuotePayload(rq.body, rq.query)
       IN  req' = [req EXCEPT ![r] =
             IF payload = Undef THEN Throw(q, 400, "Dados incompletos.")
             ELSE IF RawItemsInvalid(payload.items) THEN Throw(q, 400, "Itens invalidos.")
             ELSE [q EXCEPT !.pc = "resolve", !.rawItems = payload.items.a,
                            !.line = 1]]
  /\ nreq' = nreq + 1
  /\ UNCHANGED <<stock, orders, orderItems, failed>>

\* shippingService.quote
ShippingQuote(r) ==
  /\ req[r].pc = "shipping"
  /\ \E ok \in BOOLEAN :
       LET q == Call(req[r], "shippingService.quote")
       IN  req' = [req EXCEPT ![r] =
             IF ~ok THEN Throw(q, 400, "shippingService.quote failed")
             ELSE [q EXCEPT !.pc = "respond",
                            !.pending = [status |-> 200, error |-> ""]]]
  /\ UNCHANGED <<stock, orders, orderItems, nreq, failed>>

\* A step of a request under way.
Step(r) ==
  \/ Validate(r)
  \/ ResolveLine(r)
  \/ FindAddress(r)
  \/ ApplyCoupon(r)
  \/ OrderCreate(r)
  \/ ItemCreate(r)
  \/ Decrement(r)
  \/ CreatePreference(r)
  \/ OrderUpdate(r)
  \/ Commit(r)
  \/ Rollback(r)
  \/ Respond(r)
  \/ Finish(r)

\* --------------------------------------------------------- pricing (inputs)

\* The carts of SpecPricing: one or two lines of the product without stock
\* management, any quantity and price override within the bounds, or one
\* unit of the stock-managed product.
PricingLines ==
  { BySku("STACK-DUPLO", Num(n), pr) :
      n \in 1..MaxQty, pr \in {Undef} \cup { Num(c) : c \in (-1)..MaxPrice } }
  \cup { BySku("A", Num(1), Undef) }

PricingCarts ==
  { <<l>> : l \in PricingLines } \cup (PricingLines \X PricingLines)

PricingCoupons ==
  {Undef, Coupon(FALSE, 0)} \cup { Coupon(TRUE, d) : d \in 1..MaxDiscount }

\* The scenario of the specification: two units at 1000, shipping 500, a
\* discount of 300.
ScenarioBody ==
  CreateBody(Array(<< BySku("A", Num(2), Num(1000)) >>), OwnAddress,
             Shipping(Num(500)), Coupon(TRUE, 300))

PricingBodies ==
  { CreateBody(Array(c), OwnAddress, Shipping(Num(sh)), cp) :
      c \in PricingCarts, sh \in 0..MaxShipping, cp \in PricingCoupons }
  \cup {ScenarioBody}

NextPricing == BeginCreate("r1", PricingBodies, 1) \/ Step("r1")

\* One createOrder request, over every cart, shipping price and discount
\* within the bounds.
SpecPricing == InitStore /\ [][NextPricing]_vars

\* ------------------------------------------------------ resolution (inputs)

\* The references a cart line of SpecResolve names its product by.
ResolveRefs ==
  { <<Num(1), Undef, Undef>>,          \* productId of the stock-managed product
    <<Num(3), Undef, Undef>>,          \* productId of the inactive product
    <<Num(7), Undef, Undef>>,          \* productId of no product
    <<Undef, Num(2), Undef>>,          \* id, a key
    <<Undef, Str("A"), Undef>>,        \* id, a sku
    <<Undef, Str("Z"), Undef>>,        \* id of no product
    <<Undef, Undef, Str("STACK-DUPLO")>>,
    <<Undef, Undef, Str("Z")>>,        \* sku of no product
    <<Undef, Undef, Undef>> }          \* no reference at all

\* The quantities they ask for: none, zero, negative, within stock, beyond
\* stock, not a number, numbers as strings.
ResolveQtys ==
  { Undef, Num(0), Num(-1), Num(1), Num(InitStock + 1),
    Str("abc"), Str("0"), Str("2") }

ResolveLines ==
  { RawLine(ref[1], ref[2], ref[3], n, Undef, Undef) :
      ref \in ResolveRefs, n \in ResolveQtys }
  \cup
  { RawLine(Undef, Undef, Str("STACK-DUPLO"), n, m, pr) :
      n \in {Undef, Num(0)}, m \in {Undef, Num(2), Num(-1)},
      pr \in {Undef, Num(-1), Num(0), Num(3)} }

\* Lines every cart of two is built around: a good one, a skipped one.
PivotLines ==
  { BySku("STACK-DUPLO", Num(1), Undef), BySku("A", Num(1), Undef),
    BySku("STACK-DUPLO", Num(-1), Undef) }

ResolveCarts ==
  {<< >>} \cup { <<l>> : l \in ResolveLines }
  \cup (PivotLines \X ResolveLines) \cup (ResolveLines \X PivotLines)

ResolveBodies ==
  { CreateBody(Array(c), a, Shipping(Num(1)), Undef) :
      c \in ResolveCarts, a \in {OwnAddress, OtherAddress} }
  \cup
  { CreateBody(i, a, sh, cp) :
      i \in {Undef, Array(<< >>), Array(<< BySku("A", Num(1), Undef) >>)},
      a \in {Undef, OwnAddress},
      sh \in {Undef, Shipping(Undef)},
      cp \in {Undef, Coupon(TRUE, 1), Coupon(FALSE, 0)} }

QuoteBody(items, destination) ==
  [items |-> items, destination |-> destination]

Destination(cep) == [t |-> "object", cep |-> cep]

Query(sku, qty, cep) ==
  [sku |-> sku, id |-> Undef, productId |-> Undef, qty |-> qty,
   cep |-> cep, postal_code |-> Undef]

QuoteRequests ==
  { [body |-> QuoteBody(Array(c), Destination(Str("01310-100"))), query |-> NoQuery] :
      c \in {<< >>} \cup { <<l>> : l \in ResolveLines } }
  \cup
  { [body |-> QuoteBody(i, d), query |-> Query(s, n, c)] :
      i \in {Undef, Array(<< >>)},
      d \in {Undef, Destination(Str("01310-100"))},
      s \in {Undef, Str("A"), Str("Z")},
      n \in {Undef, Num(2)},
      c \in {Undef, Str("abc"), Str("01310-100")} }

NextResolve ==
  \/ BeginCreate("r1", ResolveBodies, 1)
  \/ BeginQuote("r1", QuoteRequests, 1)
  \/ Step("r1")
  \/ ShippingQuote("r1")

\* One request, quote or createOrder, over carts of every kind of line.
SpecResolve == InitStore /\ [][NextResolve]_vars

\* ----------------------------------------------------- concurrent requests

\* The bodies of Spec: carts of one line per product, each within the stock
\* at start, and requests that fail at each stage.
ConcBodies ==
  { CreateBody(Array(<< BySku("A", Num(InitStock), Undef) >>), OwnAddress,
               Shipping(Num(0)), Undef),
    CreateBody(Array(<< BySku("A", Num(1), Undef) >>), OwnAddress,
               Shipping(Num(1)), Coupon(TRUE, 1)),
    CreateBody(Array(<< BySku("STACK-DUPLO", Num(1), Undef),
                        BySku("A", Num(1), Undef) >>), OwnAddress,
               Shipping(Num(0)), Undef),
    CreateBody(Array(<< BySku("A", Num(1), Undef) >>), OtherAddress,
               Shipping(Num(0)), Coupon(FALSE, 0)),
    CreateBody(Array(<< BySku("A", Num(1), Undef) >>), OwnAddress,
               Shipping(Num(0)), Coupon(FALSE, 0)),
    CreateBody(Array(<< BySku("C", Num(1), Undef) >>), Undef,
               Shipping(Num(0)), Undef) }

Next == \E r \in Procs : BeginCreate(r, ConcBodies, MaxRequests) \/ Step(r)

\* Two request slots serving createOrder requests concurrently.
Spec == InitStore /\ [][Next]_vars

\* ----------------------------------------------------- one request at a time

\* The bodies of SpecSeq: among them carts with two lines of one product.
SeqBodies ==
  { CreateBody(Array(c), OwnAddress, Shipping(Num(0)), cp) :
      c \in { << BySku("A", Num(n), Undef) >> : n \in 1..InitStock }
             \cup { << BySku("A", Num(n), Undef), BySku("A", Num(m), Undef) >> :
                      n \in 1..InitStock, m \in 1..InitStock },
      cp \in {Undef, Coupon(TRUE, 1)} }
  \cup { CreateBody(Array(<< BySku("STACK-DUPLO", Num(1), Undef) >>),
                    OwnAddress, Shipping(Num(0)), Coupon(FALSE, 0)) }

NextSeq == BeginCreate("r1", SeqBodies, MaxRequests) \/ Step("r1")

\* createOrder requests served one after the other.
SpecSeq == InitStore /\ [][NextSeq]_vars

\* ------------------------------------------------------------------ claims

RECURSIVE SeqSum(_)
\* The sum of a sequence of integers.
SeqSum(s) == IF Len(s) = 0 THEN 0 ELSE s[Len(s)] + SeqSum(SubSeq(s, 1, Len(s) - 1))

\* The request slots whose transaction holds an Order row.
WithOrder == { r \in Procs : req[r].txOrder # NoOrder }

\* The request slots whose payment lines were built.
WithLines == { r \in Procs : req[r].pc \in {"orderUpdate", "commit", "respond", "done"}
                              /\ req[r].txState \in {"open", "committed"}
                              /\ req[r].handler = "create" }

\* C1: the Order row of a request has subtotalCents = the sum over the
\* resolved items of unit_price_cents * qty, and totalCents = max(0,
\* subtotalCents + shippingCents - discountCents), which is never negative.
C1_OrderTotals ==
  \A r \in WithOrder :
    LET q == req[r]
        o == q.txOrder
        sum == SeqSum([i \in 1..Len(q.items) |->
                         q.items[i].unit_price_cents * q.items[i].qty])
        net == sum + q.body.shipping.price_cents.v - q.discountCents
    IN  /\ o.subtotalCents = sum
        /\ o.shippingCents = q.body.shipping.price_cents.v
        /\ o.discountCents = q.discountCents
        /\ o.totalCents = (IF net > 0 THEN net ELSE 0)
        /\ o.totalCents >= 0

\* An order of two lines whose discount exceeds subtotal + shipping is
\* committed with a total of 0.
C1_Witness ==
  \E r \in WithOrder :
    /\ req[r].txState = "committed"
    /\ Len(req[r].items) = 2
    /\ req[r].txOrder.subtotalCents > 0
    /\ req[r].txOrder.discountCents >
         req[r].txOrder.subtotalCents + req[r].txOrder.shippingCents
    /\ req[r].txOrder.totalCents = 0
    /\ req[r].txOrder \in orders

\* C2: the payment lines sent to the gateway sum (unit price in cents times
\* quantity) to the order's totalCents within as many cents as there are
\* lines.  Stated for the carts whose prices are all >= 0.
C2_LinesSumToTotal ==
  \A r \in WithLines :
    LET q == req[r]
        sum == SeqSum([i \in 1..Len(q.mp) |->
                         q.mp[i].unit_price * q.mp[i].quantity])
        off == sum - q.txOrder.totalCents
    IN  (\A i \in 1..Len(q.mp) : q.mp[i].orig_price >= 0)
        => (off <= Len(q.mp) /\ -off <= Len(q.mp))

\* C4: a payment line whose unit price is >= 0 before the discount
\* allocation has a unit price >= 0 after it, whatever the discount.
C4_NoNegativeLine ==
  \A r \in WithLines :
    \A i \in 1..Len(req[r].mp) :
      req[r].mp[i].orig_price >= 0 => req[r].mp[i].unit_price >= 0

\* A discount larger than subtotal + shipping was allocated: a line that
\* cost something is sent at 0.
C4_Witness ==
  \E r \in WithLines :
    /\ req[r].discountCents >
         req[r].txOrder.subtotalCents + req[r].txOrder.shippingCents
    /\ \E i \in 1..Len(req[r].mp) :
         req[r].mp[i].orig_price > 0 /\ req[r].mp[i].unit_price = 0

\* C9: the allocation is greedy in line order.  With the remaining discount
\* starting at discountCents, a line with a positive subtotal takes
\* min(line subtotal, remaining) off its subtotal (its unit price becomes
\* the rounded quotient of what is left) and off the remaining discount;
\* the remaining discount is never negative; after it reaches 0 every line
\* keeps its price; what was deducted in all is min(discountCents, sum of
\* the positive line subtotals).
C9_GreedyAllocation ==
  \A r \in WithLines :
    LET q == req[r]
        n == Len(q.mp)
        Before(i) == IF i = 1 THEN q.discountCents ELSE q.mp[i - 1].remaining
        LineTotal(i) == q.mp[i].orig_price * q.mp[i].quantity
        Taken(i) == IF LineTotal(i) > 0
                    THEN (IF LineTotal(i) < Before(i) THEN LineTotal(i) ELSE Before(i))
                    ELSE 0
        positives == SeqSum([i \in 1..n |->
                               IF LineTotal(i) > 0 THEN LineTotal(i) ELSE 0])
    IN  q.discountCents > 0 =>
          /\ \A i \in 1..n :
               /\ q.mp[i].remaining = Before(i) - Taken(i)
               /\ q.mp[i].remaining >= 0
               /\ Taken(i) > 0 =>
                    q.mp[i].unit_price =
                      (2 * (LineTotal(i) - Taken(i)) + q.mp[i].quantity)
                        \div (2 * q.mp[i].quantity)
               /\ Before(i) = 0 => q.mp[i].unit_price = q.mp[i].orig_price
          /\ n > 0 =>
               q.discountCents - q.mp[n].remaining =
                 (IF q.discountCents < positives THEN q.discountCents ELSE positives)

\* The scenario of the specification: a line of 2 at 1000, shipping 500 and
\* a discount of 300 are sent as unit prices 850 and 500.
C9_Witness ==
  \E r \in WithLines :
    /\ req[r].body = ScenarioBody
    /\ Len(req[r].mp) = 2
    /\ req[r].mp[1].unit_price = 850 /\ req[r].mp[1].remaining = 0
    /\ req[r].mp[2].unit_price = 500 /\ req[r].mp[2].orig_price = 500

\* The calls that write to the store.
WriteCalls == {"Order.create", "OrderItem.create", "Product.decrement",
               "order.update", "transaction.commit"}

\* Request q has issued no write and holds none in its transaction.
NoWrite(q) ==
  /\ \A i \in 1..Len(q.calls) : q.calls[i] \notin WriteCalls
  /\ q.txOrder = NoOrder /\ q.txRows = << >> /\ q.txDec = NoDec

\* Cart line l names no product, an inactive product, or more of a
\* stock-managed product than the quantity in stock.
BadLine(l, stockQuantity) ==
  LET p == FindProduct(l)
      n == Qty(l)
  IN  \/ p = NoProduct
      \/ ~Catalog[p].active
      \/ Catalog[p].stockManaged /\ n.t = "num" /\ n.v > stockQuantity[p]

\* The lines of the cart of a createOrder request.
CartOf(q) == IF q.body.items.t = "array" THEN q.body.items.a ELSE << >>

\* Request slot r has answered, with an error.
Refused(q) == q.pc = "done" => q.response.status \in {400, 404}

\* C5, as claimed: a createOrder request with a line that names no product,
\* an inactive product or more than the stock ends in an error response,
\* no write is issued and the stock is as it was.
C5_BadLineFails ==
  \A r \in Procs :
    LET q == req[r]
    IN  (q.handler = "create"
         /\ \E i \in 1..Len(CartOf(q)) : BadLine(CartOf(q)[i], [p \in ProductIds |-> InitStock]))
        => (Refused(q) /\ NoWrite(q) /\ stock = [p \in ProductIds |-> InitStock])

\* C5, amended: the same for a line resolveItems does not skip, that is one
\* whose quantity (qty, else quantity, else 1, as a number) is positive.
C5_UnskippedBadLineFails ==
  \A r \in Procs :
    LET q == req[r]
        Asked(l) == Qty(l).t = "num" /\ Qty(l).v > 0
    IN  (q.handler = "create"
         /\ \E i \in 1..Len(CartOf(q)) :
              /\ Asked(CartOf(q)[i])
              /\ BadLine(CartOf(q)[i], [p \in ProductIds |-> InitStock]))
        => (Refused(q) /\ NoWrite(q) /\ stock = [p \in ProductIds |-> InitStock])

\* A cart whose first line is good and whose second asks for more than the
\* stock was refused for the stock, after both lookups and nothing else.
C5_Witness ==
  \E r \in Procs :
    /\ req[r].pc = "done" /\ req[r].handler = "create"
    /\ req[r].response = [status |-> 400, error |-> "Estoque insuficiente"]
    /\ Len(req[r].items) = 1
    /\ req[r].txState = "rolledback"

\* The items of the request are an empty array.
EmptyCart(q) == q.body.items = Array(<< >>)

InvalidInput == [status |-> 400, error |-> "Itens invalidos."]

\* C6, as claimed: a request with an empty items array is answered
\* 'Itens invalidos.' and has made no external call when it fails.
C6_EmptyCartFailsFirst ==
  \A r \in Procs :
    LET q == req[r]
    IN  (q.handler \in {"create", "quote"} /\ EmptyCart(q)) =>
          /\ \A i \in 1..Len(q.calls) : q.calls[i] = "transaction.rollback"
          /\ q.pc = "done" => q.response = InvalidInput

\* C6, amended: a quote whose body has a destination, or a createOrder that
\* passes the check of its required fields, whose items array is empty, is
\* answered 'Itens invalidos.'; quote has made no external call, createOrder none
\* but the opening and the rollback of its transaction.
C6_EmptyCartFails ==
  \A r \in Procs :
    LET q == req[r]
    IN  /\ (q.handler = "quote" /\ EmptyCart(q) /\ q.body.destination # Undef) =>
              /\ q.calls = << >>
              /\ q.pc = "done" => q.response = InvalidInput
        /\ (q.handler = "create" /\ EmptyCart(q)
             /\ EnsureFields(q.body, {"items", "address_id", "shipping"}) = {}) =>
              /\ q.calls \in { <<"sequelize.transaction">>,
                                <<"sequelize.transaction", "transaction.rollback">> }
              /\ q.pc = "done" => q.response = InvalidInput

\* A createOrder with every field and an empty cart was answered.
C6_Witness ==
  \E r \in Procs :
    /\ req[r].handler = "create" /\ EmptyCart(req[r])
    /\ req[r].body.address_id = OwnAddress
    /\ req[r].pc = "done" /\ req[r].response = InvalidInput
    /\ req[r].txState = "rolledback"

\* C7: every item resolveItems returns has a quantity >= 1 and a unit price
\* >= 0 (the price_cents of the line if it has one, the catalog price
\* otherwise).
C7_ResolvedItemsValid ==
  \A r \in Procs :
    \A i \in 1..Len(req[r].items) :
      req[r].items[i].qty >= 1 /\ req[r].items[i].unit_price_cents >= 0

\* The quantity of product p the committed order items of order id hold.
RowsQty(p, ids) ==
  LET rows == { w \in orderItems : w.productId = p /\ w.orderId \in ids }
      RECURSIVE Total(_)
      Total(ws) == IF ws = {} THEN 0
                   ELSE LET w == CHOOSE x \in ws : TRUE
                        IN  w.quantity + Total(ws \ {w})
  IN  Total(rows)

\* The ids of the committed orders.
OrderIds == { o.id : o \in orders }

\* C3: a createOrder request that failed was rolled back before it was
\* answered and has left no Order row, no OrderItem row and no stock
\* decrement; every committed Order has its payment preference attached.
C3_RollbackOnFailure ==
  /\ \A o \in orders : o.mercadoPagoPreferenceId # 0 /\ o.id \notin failed
  /\ \A w \in orderItems : w.orderId \in OrderIds /\ w.orderId \notin failed
  /\ \A r \in Procs :
       (req[r].handler = "create" /\ req[r].pc = "done"
        /\ req[r].response.status # 200)
       => (req[r].txState = "rolledback" /\ req[r].no \in failed)
  /\ \A r \in Procs :
       req[r].pc = "done" /\ req[r].response.status = 200
       => req[r].no \in OrderIds
  /\ \A p \in ProductIds :
       stock[p] = InitStock - (IF Catalog[p].stockManaged
                               THEN RowsQty(p, OrderIds \ failed) ELSE 0)

\* The payment preference of a request failed after its order, its order
\* item and its stock decrement were written, while another order is
\* committed.
C3_Witness ==
  \E r \in Procs :
    /\ req[r].pc = "done"
    /\ req[r].response = [status |-> 400, error |-> "createPreference failed"]
    /\ \E i \in 1..Len(req[r].calls) : req[r].calls[i] = "Product.decrement"
    /\ req[r].no \notin OrderIds
    /\ orders # {}

\* C8: the stock check and the decrement are not atomic.  Whenever two
\* committed orders of one line each hold quantities of a stock-managed
\* product that are each within the stock at start and together beyond it,
\* both decrements were applied and the stock is below zero.
C8_BothDecrement ==
  \A p \in ProductIds :
    \A a, b \in OrderIds :
      (a # b /\ Catalog[p].stockManaged
       /\ RowsQty(p, {a}) \in 1..InitStock /\ RowsQty(p, {b}) \in 1..InitStock
       /\ RowsQty(p, {a}) + RowsQty(p, {b}) > InitStock)
      => stock[p] < 0

\* Two requests, each asking for what is in stock, ran concurrently, both
\* passed the check and both committed: the stock is below zero.
C8_Witness ==
  \E a, b \in OrderIds :
    /\ a # b
    /\ RowsQty(1, {a}) = InitStock /\ RowsQty(1, {b}) = InitStock
    /\ stock[1] = -InitStock
    /\ \A r \in Procs : req[r].pc = "done" /\ req[r].response.status = 200

\* C10: with requests served one at a time, the stock of a product never
\* goes below zero.
C10_StockNeverNegative == \A p \in ProductIds : stock[p] >= 0

====
